---- MODULE Spec2Model ----
(***************************************************************************)
(* Model of src/src/clock.py: the Clock object of the LED matrix clock.    *)
(*                                                                         *)
(* State: the fields last_time, last_date and _digit_cache of the Clock,   *)
(* plus a record of the most recent method call (its inputs, its result    *)
(* and the operations it performed on the canvases and on the display      *)
(* manager), the timezone field and the position of the __main__ script.   *)
(* Strings are sequences of one-character strings; Python's     *)
(* None is the one-element sequence <<"None">>, which no string equals.    *)
(***************************************************************************)
EXTENDS Integers, Sequences, FiniteSets, TLC

VARIABLES last_time, last_date, digit_cache, call, ret, ops,
          config_timezone, timezone, warnings, pc, loop_exit, cleanups

\* config_timezone  what config_manager.get_timezone() returns
\* timezone         the field self.timezone (None before construction)
\* warnings         number of logger.warning calls so far
\* pc               position of the __main__ script: "construct", "loop",
\*                  "finally", "exit", "crashed"; "caller" when the Clock is
\*                  driven by other code than __main__
\* loop_exit        the exception that left the while loop ("none" so far)
\* cleanups         number of display_manager.cleanup() calls so far
mainvars == <<config_timezone, timezone, warnings, pc, loop_exit, cleanups>>

vars == <<last_time, last_date, digit_cache, call, ret, ops,
          config_timezone, timezone, warnings, pc, loop_exit, cleanups>>

(***************************************************************************)
(* Bounds of the model.                                                    *)
(***************************************************************************)
\* longest arbitrary string handed to time_str_to_decimal
MaxLen == 5
\* dates are numbered 1..MaxDate (the text of '%b %-d' is not interpreted)
MaxDate == 2

\* characters of the arbitrary strings: digits, the separator, a non-digit
Alphabet == {"0", "1", "5", ":", "x"}

\* wall-clock instants <<hour24, minute>> offered to the renderer
SnapTimes == {<<9, 5>>, <<9, 6>>, <<21, 6>>, <<10, 0>>}

(***************************************************************************)
(* Values.                                                                 *)
(***************************************************************************)
None == <<"None">>

DigitChars == <<"0", "1", "2", "3", "4", "5", "6", "7", "8", "9">>

IsDigitChar(c) == \E i \in 1..10 : DigitChars[i] = c

DigitVal(c) == (CHOOSE i \in 1..10 : DigitChars[i] = c) - 1

\* str(n) for 0 <= n <= 99, no padding
IntToStr(n) ==
    IF n < 10 THEN <<DigitChars[n + 1]>>
    ELSE <<DigitChars[(n \div 10) + 1], DigitChars[(n % 10) + 1]>>

\* format(n, "02d") for 0 <= n <= 99
Pad2(n) == <<DigitChars[(n \div 10) + 1], DigitChars[(n % 10) + 1]>>

(***************************************************************************)
(* get_current_time: strftime('%-I:%M'), strftime('%p'), strftime('%b %-d')*)
(* of the instant (h, m) on date d.                                        *)
(***************************************************************************)
Hour12(h) == IF h % 12 = 0 THEN 12 ELSE h % 12

FormatTime(h, m) == IntToStr(Hour12(h)) \o <<":">> \o Pad2(m)

FormatAmPm(h) == IF h < 12 THEN "AM" ELSE "PM"

get_current_time(h, m, d) ==
    [time_str |-> FormatTime(h, m), ampm |-> FormatAmPm(h), date_str |-> d]

(***************************************************************************)
(* time_str_to_decimal.                                                    *)
(***************************************************************************)
HasColon(s) == \E i \in 1..Len(s) : s[i] = ":"

FirstColon(s) == CHOOSE i \in 1..Len(s) : s[i] = ":" /\ \A j \in 1..(i - 1) : s[j] # ":"

RECURSIVE Split(_)
\* str.split(":"): the fields between the colons, at least one field
Split(s) ==
    IF ~HasColon(s) THEN <<s>>
    ELSE <<SubSeq(s, 1, FirstColon(s) - 1)>> \o Split(SubSeq(s, FirstColon(s) + 1, Len(s)))

\* int(f) succeeds: a non-empty run of decimal digits (over Alphabet)
IntOk(f) == Len(f) > 0 /\ \A i \in 1..Len(f) : IsDigitChar(f[i])

RECURSIVE IntVal(_)
IntVal(f) ==
    IF Len(f) = 0 THEN 0
    ELSE IntVal(SubSeq(f, 1, Len(f) - 1)) * 10 + DigitVal(f[Len(f)])

Sentinel == <<-1, -1, -1, -1>>

\* variant: the minute digits taken in the wrong order
DigitQuad_swapped(hour, minute) ==
    <<hour \div 10, hour % 10, minute % 10, minute \div 10>>

DigitQuad(hour, minute) == <<hour \div 10, hour % 10, minute \div 10, minute % 10>>

\* variant: rejects every string that does not split into exactly two fields
time_str_to_decimal_strict(time_str) ==
    IF time_str = None THEN [exc |-> "none", quad |-> Sentinel]
    ELSE LET fields == Split(time_str)
         IN IF Len(fields) # 2 \/ ~IntOk(fields[1]) \/ ~IntOk(fields[2])
              THEN [exc |-> "ValueError", quad |-> Sentinel]
            ELSE [exc |-> "none",
                  quad |-> DigitQuad(IntVal(fields[1]), IntVal(fields[2]))]

\* variant: for None, answers with the digits of the time last rendered
time_str_to_decimal_memo(time_str) ==
    LET t == IF time_str = None THEN last_time ELSE time_str
    IN IF t = None THEN [exc |-> "none", quad |-> Sentinel]
       ELSE LET fields == Split(t)
            IN IF ~IntOk(fields[1]) \/ (Len(fields) > 1 /\ ~IntOk(fields[2]))
                 THEN [exc |-> "ValueError", quad |-> Sentinel]
               ELSE [exc |-> "none",
                     quad |-> DigitQuad(IntVal(fields[1]),
                                        IF Len(fields) > 1 THEN IntVal(fields[2]) ELSE 0)]

\* result record: exc is "none" or the exception raised, quad the tuple
\* returned (Sentinel as a filler when an exception is raised)
time_str_to_decimal(time_str) ==
    IF time_str = None THEN [exc |-> "none", quad |-> Sentinel]
    ELSE LET fields == Split(time_str)
         IN IF Len(fields) > 0 /\ ~IntOk(fields[1])
              THEN [exc |-> "ValueError", quad |-> Sentinel]
            ELSE IF Len(fields) > 1 /\ ~IntOk(fields[2])
              THEN [exc |-> "ValueError", quad |-> Sentinel]
            ELSE LET hour == IF Len(fields) > 0 THEN IntVal(fields[1]) ELSE 0
                     minute == IF Len(fields) > 1 THEN IntVal(fields[2]) ELSE 0
                 IN [exc |-> "none", quad |-> DigitQuad(hour, minute)]

(***************************************************************************)
(* Clock.__init__: glyph names and the layout table.                       *)
(***************************************************************************)
NUMBER_IMAGES ==
    <<"digit0.png", "digit1.png", "digit2.png", "digit3.png", "digit4.png",
      "digit5.png", "digit6.png", "digit7.png", "digit8.png", "digit9.png",
      "digit10s.png">>

BLANK_NUMS == <<"blank1s.png", "blank10s.png">>

\* Python list indexing: list[i], a negative i counts from the end
ListGet(list, i) == IF i < 0 THEN list[Len(list) + i + 1] ELSE list[i + 1]

X_OFFSET_TIME == 1
Y_OFFSET_TIME == 0
X_OFFSET_TEN_HR == 8
X_OFFSET_FULL_DIGITS == 25
X_OFFSET_DECIMAL_SEPARATOR == 14

HOUR_TENS_X == X_OFFSET_TIME
HOUR_TENS_Y == Y_OFFSET_TIME
HOUR_ONES_X == HOUR_TENS_X + X_OFFSET_TEN_HR
HOUR_ONES_Y == Y_OFFSET_TIME
TIME_SEPARATOR_X == HOUR_ONES_X + X_OFFSET_FULL_DIGITS
TIME_SEPARATOR_Y == Y_OFFSET_TIME
MINUTE_TENS_X == TIME_SEPARATOR_X + X_OFFSET_DECIMAL_SEPARATOR
MINUTE_TENS_Y == Y_OFFSET_TIME
MINUTE_ONES_X == MINUTE_TENS_X + X_OFFSET_FULL_DIGITS
MINUTE_ONES_Y == Y_OFFSET_TIME
AM_PM_X == MINUTE_ONES_X + X_OFFSET_FULL_DIGITS
AM_PM_Y == Y_OFFSET_TIME

(***************************************************************************)
(* Images.  A decoded glyph is <<"RGBA", name>>; an absent image is None.  *)
(***************************************************************************)
Decode(name) == <<"RGBA", name>>

IsImage(img) == img # None

\* One recorded operation of a call.  op is one of
\*   "decode"    Image.open/convert/thumbnail of glyph `name` (file I/O);
\*               img is the decoded image, None when decoding raised
\*   "load"      _load_clock_image(name) returned img
\*               (decode and load carry the position the glyph is meant for)
\*   "paste"     layer.paste(img, pos, img), layer is "overlay" or "main"
\*   "composite" Image.alpha_composite(main_img, overlay)
\*   "write"     display_manager.image.paste(main_img, (0, 0))
\*   "present"   display_manager.update_display()
\* idx is the index into NUMBER_IMAGES or BLANK_NUMS that selected the glyph
\* (NoIdx when the name is a literal).
NoIdx == 99

NoPos == <<-1, -1>>

Ev(op, layer, pos, name, img, idx) ==
    [op |-> op, layer |-> layer, pos |-> pos, name |-> name, img |-> img, idx |-> idx]

(***************************************************************************)
(* _load_clock_image(digit_str) on cache `cache`; ok says whether the      *)
(* asset opens and decodes.  Result: the new cache, the value returned,    *)
(* the exception raised ("none" if it returns) and whether the file was    *)
(* read.  A hit returns the cached image.  A miss that decodes stores the  *)
(* image and falls off the end of the function, which returns None.  A     *)
(* miss that fails to decode enters the handler, whose self.logger does    *)
(* not exist on Clock: the handler raises AttributeError.                  *)
(***************************************************************************)
\* variant: storing a glyph evicts the others
CachePut_evict(cache, name, img) == [n \in {name} |-> img]

CachePut(cache, name, img) ==
    [n \in (DOMAIN cache) \cup {name} |-> IF n = name THEN img ELSE cache[n]]

_load_clock_image(cache, digit_str, ok) ==
    IF digit_str \in DOMAIN cache
      THEN [cache |-> cache, ret |-> cache[digit_str], exc |-> "none", io |-> FALSE]
    ELSE IF ok
      THEN [cache |-> CachePut(cache, digit_str, Decode(digit_str)),
            ret |-> None, exc |-> "none", io |-> TRUE]
    ELSE [cache |-> cache, ret |-> None, exc |-> "AttributeError", io |-> TRUE]

\* Image.paste(im, (x, y), mask) of Pillow: with a 2-item box the region size
\* is taken from im or from mask; when neither is an image it raises
\* ValueError("cannot determine region size; use 4-item box").
ImagePasteExc(im, mask) ==
    IF IsImage(im) \/ IsImage(mask) THEN "none" ELSE "ValueError"

(***************************************************************************)
(* The steps of display_time_enhanced thread a record                     *)
(*   [cache, ops, exc]                                                     *)
(* through the statements; once exc is not "none" the remaining statements *)
(* are not executed.                                                       *)
(***************************************************************************)
\* img = self._load_clock_image(name); layer.paste(img, pos, img)
LoadAndPaste(m, layer, pos, name, idx, ok) ==
    IF m.exc # "none" THEN m
    ELSE LET r == _load_clock_image(m.cache, name, ok)
             ops1 == IF r.io
                       THEN Append(m.ops, Ev("decode", "-", pos, name,
                                             IF ok THEN Decode(name) ELSE None, idx))
                       ELSE m.ops
         IN IF r.exc # "none"
              THEN [cache |-> r.cache, ops |-> ops1, exc |-> r.exc]
            ELSE LET ops2 == Append(ops1, Ev("load", "-", pos, name, r.ret, idx))
                 IN IF ImagePasteExc(r.ret, r.ret) # "none"
                      THEN [cache |-> r.cache, ops |-> ops2,
                            exc |-> ImagePasteExc(r.ret, r.ret)]
                    ELSE [cache |-> r.cache,
                          ops |-> Append(ops2, Ev("paste", layer, pos, name, r.ret, idx)),
                          exc |-> "none"]

\* a statement that cannot fail: record it
Do(m, op) ==
    IF m.exc # "none" THEN m
    ELSE [m EXCEPT !.ops = Append(@, Ev(op, "-", NoPos, "-", None, NoIdx))]

\* display_manager.image.paste(main_img, (0, 0)); display_manager.update_display()
WriteAndPresent(m) == Do(Do(m, "write"), "present")

\* lines 223-231: separator and AM/PM glyph onto the overlay
PasteOverlay(m, ampm, ok) ==
    LET m1 == LoadAndPaste(m, "overlay", <<TIME_SEPARATOR_X, TIME_SEPARATOR_Y>>,
                           "timeseparator.png", NoIdx, ok)
    IN LoadAndPaste(m1, "overlay", <<AM_PM_X, AM_PM_Y>>,
                    IF ampm = "AM" THEN "am.png" ELSE "pm.png", NoIdx, ok)

\* lines 245-248: which digit cells changed
Updated(new, old) == [i \in 1..4 |-> new[i] # old[i]]

\* variant: the minute-tens cell is blanked with the hour-tens filler
PasteBlanks_tens(m, upd, ok) ==
    LET m1 == IF upd[1]
                THEN LoadAndPaste(m, "main", <<HOUR_TENS_X, HOUR_TENS_Y>>,
                                  ListGet(BLANK_NUMS, 1), 1, ok)
                ELSE m
        m2 == IF upd[2]
                THEN LoadAndPaste(m1, "main", <<HOUR_ONES_X, HOUR_ONES_Y>>,
                                  ListGet(BLANK_NUMS, 0), 0, ok)
                ELSE m1
        m3 == IF upd[3]
                THEN LoadAndPaste(m2, "main", <<MINUTE_TENS_X, MINUTE_TENS_Y>>,
                                  ListGet(BLANK_NUMS, 1), 1, ok)
                ELSE m2
    IN IF upd[4]
         THEN LoadAndPaste(m3, "main", <<MINUTE_ONES_X, MINUTE_ONES_Y>>,
                           ListGet(BLANK_NUMS, 0), 0, ok)
         ELSE m3

\* lines 250-262: blank the updated cells
PasteBlanks(m, upd, ok) ==
    LET m1 == IF upd[1]
                THEN LoadAndPaste(m, "main", <<HOUR_TENS_X, HOUR_TENS_Y>>,
                                  ListGet(BLANK_NUMS, 1), 1, ok)
                ELSE m
        m2 == IF upd[2]
                THEN LoadAndPaste(m1, "main", <<HOUR_ONES_X, HOUR_ONES_Y>>,
                                  ListGet(BLANK_NUMS, 0), 0, ok)
                ELSE m1
        m3 == IF upd[3]
                THEN LoadAndPaste(m2, "main", <<MINUTE_TENS_X, MINUTE_TENS_Y>>,
                                  ListGet(BLANK_NUMS, 0), 0, ok)
                ELSE m2
    IN IF upd[4]
         THEN LoadAndPaste(m3, "main", <<MINUTE_ONES_X, MINUTE_ONES_Y>>,
                           ListGet(BLANK_NUMS, 0), 0, ok)
         ELSE m3

\* variant: the two branches of each cell exchanged
PasteDigits_swapped(m, new, old, upd, ok) ==
    LET m1 == IF upd[1] /\ new[1] > 0
                THEN LoadAndPaste(m, "main", <<HOUR_TENS_X, HOUR_TENS_Y>>,
                                  ListGet(NUMBER_IMAGES, 10), 10, ok)
              ELSE IF new[1] > 0
                THEN LoadAndPaste(m, "main", <<HOUR_TENS_X, HOUR_TENS_Y>>,
                                  ListGet(NUMBER_IMAGES, 10), 10, ok)
              ELSE m
        i2 == IF upd[2] THEN old[2] ELSE new[2]
        m2 == LoadAndPaste(m1, "main", <<HOUR_ONES_X, HOUR_ONES_Y>>,
                           ListGet(NUMBER_IMAGES, i2), i2, ok)
        i3 == IF upd[3] THEN old[3] ELSE new[3]
        m3 == LoadAndPaste(m2, "main", <<MINUTE_TENS_X, MINUTE_TENS_Y>>,
                           ListGet(NUMBER_IMAGES, i3), i3, ok)
        i4 == IF upd[4] THEN old[4] ELSE new[4]
    IN LoadAndPaste(m3, "main", <<MINUTE_ONES_X, MINUTE_ONES_Y>>,
                    ListGet(NUMBER_IMAGES, i4), i4, ok)

\* variant: every cell drawn from the old quad
PasteDigits_old(m, new, old, upd, ok) ==
    LET m1 == IF upd[1] /\ new[1] > 0
                THEN LoadAndPaste(m, "main", <<HOUR_TENS_X, HOUR_TENS_Y>>,
                                  ListGet(NUMBER_IMAGES, 10), 10, ok)
              ELSE IF new[1] > 0
                THEN LoadAndPaste(m, "main", <<HOUR_TENS_X, HOUR_TENS_Y>>,
                                  ListGet(NUMBER_IMAGES, 10), 10, ok)
              ELSE m
        i2 == old[2]
        m2 == LoadAndPaste(m1, "main", <<HOUR_ONES_X, HOUR_ONES_Y>>,
                           ListGet(NUMBER_IMAGES, i2), i2, ok)
        i3 == old[3]
        m3 == LoadAndPaste(m2, "main", <<MINUTE_TENS_X, MINUTE_TENS_Y>>,
                           ListGet(NUMBER_IMAGES, i3), i3, ok)
        i4 == old[4]
    IN LoadAndPaste(m3, "main", <<MINUTE_ONES_X, MINUTE_ONES_Y>>,
                    ListGet(NUMBER_IMAGES, i4), i4, ok)

\* lines 272-299: draw the digit glyphs
PasteDigits(m, new, old, upd, ok) ==
    LET m1 == IF upd[1] /\ new[1] > 0
                THEN LoadAndPaste(m, "main", <<HOUR_TENS_X, HOUR_TENS_Y>>,
                                  ListGet(NUMBER_IMAGES, 10), 10, ok)
              ELSE IF new[1] > 0
                THEN LoadAndPaste(m, "main", <<HOUR_TENS_X, HOUR_TENS_Y>>,
                                  ListGet(NUMBER_IMAGES, 10), 10, ok)
              ELSE m
        i2 == IF upd[2] THEN new[2] ELSE old[2]
        m2 == LoadAndPaste(m1, "main", <<HOUR_ONES_X, HOUR_ONES_Y>>,
                           ListGet(NUMBER_IMAGES, i2), i2, ok)
        i3 == IF upd[3] THEN new[3] ELSE old[3]
        m3 == LoadAndPaste(m2, "main", <<MINUTE_TENS_X, MINUTE_TENS_Y>>,
                           ListGet(NUMBER_IMAGES, i3), i3, ok)
        i4 == IF upd[4] THEN new[4] ELSE old[4]
    IN LoadAndPaste(m3, "main", <<MINUTE_ONES_X, MINUTE_ONES_Y>>,
                    ListGet(NUMBER_IMAGES, i4), i4, ok)

\* lines 219: the guard of the render pass
NeedsUpdate(time_str, date_str, force_clear) ==
    time_str # last_time \/ date_str # last_date \/ force_clear

\* variant: the frame is composed in full and presented once
RenderBody_single(snap, ok) ==
    LET m0 == [cache |-> digit_cache, ops |-> <<>>, exc |-> "none"]
        m1 == PasteOverlay(m0, snap.ampm, ok)
        nd == time_str_to_decimal(snap.time_str)
        od == time_str_to_decimal(last_time)
    IN IF m1.exc # "none" THEN m1
       ELSE IF nd.exc # "none" THEN [m1 EXCEPT !.exc = nd.exc]
       ELSE IF od.exc # "none" THEN [m1 EXCEPT !.exc = od.exc]
       ELSE LET upd == Updated(nd.quad, od.quad)
                m2 == PasteBlanks(m1, upd, ok)
                m3 == Do(m2, "composite")
                m4 == PasteDigits(m3, nd.quad, od.quad, upd, ok)
            IN WriteAndPresent(m4)

\* lines 220-305: the body of the pass, from the fields of the Clock
RenderBody(snap, ok) ==
    LET m0 == [cache |-> digit_cache, ops |-> <<>>, exc |-> "none"]
        m1 == PasteOverlay(m0, snap.ampm, ok)
        nd == time_str_to_decimal(snap.time_str)
        od == time_str_to_decimal(last_time)
    IN IF m1.exc # "none" THEN m1
       ELSE IF nd.exc # "none" THEN [m1 EXCEPT !.exc = nd.exc]
       ELSE IF od.exc # "none" THEN [m1 EXCEPT !.exc = od.exc]
       ELSE LET upd == Updated(nd.quad, od.quad)
                m2 == PasteBlanks(m1, upd, ok)
                m3 == WriteAndPresent(Do(m2, "composite"))
                m4 == PasteDigits(m3, nd.quad, od.quad, upd, ok)
            IN WriteAndPresent(m4)

(***************************************************************************)
(* Actions: one per method call on the Clock.                              *)
(***************************************************************************)
NoSnap == [time_str |-> None, ampm |-> "-", date_str |-> 0]

\* a constructed Clock (timezone "UTC" configured), driven by a caller
Init ==
    /\ last_time = None
    /\ last_date = None
    /\ digit_cache = <<>>
    /\ call = [kind |-> "none", force_clear |-> FALSE, snap |-> NoSnap,
               arg |-> None, ok |-> TRUE]
    /\ ret = [outcome |-> "none", quad |-> Sentinel]
    /\ ops = <<>>
    /\ config_timezone = "UTC"
    /\ timezone = "UTC"
    /\ warnings = 0
    /\ pc = "caller"
    /\ loop_exit = "none"
    /\ cleanups = 0

\* variant: last_time and last_date are stored before the frame is built
display_time_enhanced_eager(force_clear, h, m, d, ok) ==
    LET snap == get_current_time(h, m, d)
    IN /\ call' = [kind |-> "render", force_clear |-> force_clear, snap |-> snap,
                   arg |-> None, ok |-> ok]
       /\ IF ~NeedsUpdate(snap.time_str, snap.date_str, force_clear)
            THEN /\ ops' = <<>>
                 /\ ret' = [outcome |-> "skipped", quad |-> Sentinel]
                 /\ UNCHANGED <<last_time, last_date, digit_cache>>
            ELSE LET r == RenderBody(snap, ok)
                 IN /\ ops' = r.ops
                    /\ digit_cache' = r.cache
                    /\ last_time' = snap.time_str
                    /\ last_date' = snap.date_str
                    /\ ret' = [outcome |-> IF r.exc = "none" THEN "completed" ELSE r.exc,
                               quad |-> Sentinel]

\* clock.display_time_enhanced(force_clear) at instant (h, m) of date d
display_time_enhanced(force_clear, h, m, d, ok) ==
    LET snap == get_current_time(h, m, d)
    IN /\ call' = [kind |-> "render", force_clear |-> force_clear, snap |-> snap,
                   arg |-> None, ok |-> ok]
       /\ IF ~NeedsUpdate(snap.time_str, snap.date_str, force_clear)
            THEN /\ ops' = <<>>
                 /\ ret' = [outcome |-> "skipped", quad |-> Sentinel]
                 /\ UNCHANGED <<last_time, last_date, digit_cache>>
            ELSE LET r == RenderBody(snap, ok)
                 IN /\ ops' = r.ops
                    /\ digit_cache' = r.cache
                    /\ IF r.exc = "none"
                         THEN /\ last_time' = snap.time_str
                              /\ last_date' = snap.date_str
                              /\ ret' = [outcome |-> "completed", quad |-> Sentinel]
                         ELSE /\ UNCHANGED <<last_time, last_date>>
                              /\ ret' = [outcome |-> r.exc, quad |-> Sentinel]

\* clock.time_str_to_decimal(arg)
DecomposeCall(arg) ==
    LET r == time_str_to_decimal(arg)
    IN /\ call' = [kind |-> "decompose", force_clear |-> FALSE, snap |-> NoSnap,
                   arg |-> arg, ok |-> TRUE]
       /\ ret' = [outcome |-> IF r.exc = "none" THEN "returned" ELSE r.exc,
                  quad |-> r.quad]
       /\ ops' = <<>>
       /\ UNCHANGED <<last_time, last_date, digit_cache>>

Dates == 1..MaxDate

\* arguments of direct time_str_to_decimal calls between renders
RenderArgs == {None} \cup {FormatTime(t[1], t[2]) : t \in SnapTimes}

Render ==
    /\ \E force_clear \in BOOLEAN, t \in SnapTimes, d \in Dates, ok \in BOOLEAN :
          display_time_enhanced(force_clear, t[1], t[2], d, ok)
    /\ UNCHANGED mainvars

Decompose ==
    /\ \E arg \in RenderArgs : DecomposeCall(arg)
    /\ UNCHANGED mainvars

Next == Render \/ Decompose

Spec == Init /\ [][Next]_vars

(***************************************************************************)
(* Second specification: time_str_to_decimal alone.  The initial state     *)
(* holds a pending call whose argument is None, an arbitrary string over   *)
(* Alphabet of length at most MaxLen, or the time string get_current_time  *)
(* produces at some instant of the day; the only step performs the call.   *)
(***************************************************************************)
ArbStrings == UNION {[1..n -> Alphabet] : n \in 0..MaxLen}

CurrentTimeStrings == {get_current_time(h, m, 1).time_str : h \in 0..23, m \in 0..59}

InitDecompose ==
    /\ last_time = None
    /\ last_date = None
    /\ digit_cache = <<>>
    /\ \E arg \in ArbStrings \cup {None} \cup CurrentTimeStrings :
          call = [kind |-> "pending", force_clear |-> FALSE, snap |-> NoSnap,
                  arg |-> arg, ok |-> TRUE]
    /\ ret = [outcome |-> "none", quad |-> Sentinel]
    /\ ops = <<>>
    /\ config_timezone = "UTC"
    /\ timezone = "UTC"
    /\ warnings = 0
    /\ pc = "caller"
    /\ loop_exit = "none"
    /\ cleanups = 0

DecomposePending ==
    /\ call.kind = "pending"
    /\ DecomposeCall(call.arg)
    /\ UNCHANGED mainvars

NextDecompose == DecomposePending

SpecDecompose == InitDecompose /\ [][NextDecompose]_vars

(***************************************************************************)
(* Third specification: the __main__ script.  clock = Clock() resolves the *)
(* timezone; then the while loop renders and sleeps until an exception     *)
(* leaves it; the finally clause calls display_manager.cleanup().          *)
(***************************************************************************)
\* zone identifiers pytz.timezone accepts (part of its database)
PytzZones == {"UTC", "America/New_York", "Asia/Tokyo"}

\* values config_manager.get_timezone() may return
ConfigZones == PytzZones \cup {"Mars/Olympus", ""}

\* variant: no handler around pytz.timezone
_get_timezone_nofallback(config) ==
    IF config \in PytzZones
      THEN [zone |-> config, warnings |-> 0, exc |-> "none"]
      ELSE [zone |-> None, warnings |-> 0, exc |-> "UnknownTimeZoneError"]

\* Clock._get_timezone: the zone returned, the warnings logged, the
\* exception raised
_get_timezone(config) ==
    IF config \in PytzZones
      THEN [zone |-> config, warnings |-> 0, exc |-> "none"]
      ELSE [zone |-> "UTC", warnings |-> 1, exc |-> "none"]

InitMain ==
    /\ last_time = None
    /\ last_date = None
    /\ digit_cache = <<>>
    /\ call = [kind |-> "none", force_clear |-> FALSE, snap |-> NoSnap,
               arg |-> None, ok |-> TRUE]
    /\ ret = [outcome |-> "none", quad |-> Sentinel]
    /\ ops = <<>>
    /\ config_timezone \in ConfigZones
    /\ timezone = None
    /\ warnings = 0
    /\ pc = "construct"
    /\ loop_exit = "none"
    /\ cleanups = 0

\* line 312: clock = Clock(); an exception here is outside the try statement
MainConstruct ==
    /\ pc = "construct"
    /\ LET r == _get_timezone(config_timezone)
       IN /\ timezone' = r.zone
          /\ warnings' = warnings + r.warnings
          /\ IF r.exc = "none"
               THEN pc' = "loop" /\ loop_exit' = loop_exit
               ELSE pc' = "crashed" /\ loop_exit' = r.exc
    /\ UNCHANGED <<last_time, last_date, digit_cache, call, ret, ops,
                   config_timezone, cleanups>>

\* variant: an exception of the render pass goes straight to the exit
MainTick_nofinally ==
    /\ pc = "loop"
    /\ \E t \in SnapTimes, d \in Dates, ok \in BOOLEAN :
          display_time_enhanced(FALSE, t[1], t[2], d, ok)
    /\ IF ret'.outcome \in {"ValueError", "AttributeError"}
         THEN pc' = "exit" /\ loop_exit' = ret'.outcome
         ELSE pc' = "loop" /\ loop_exit' = loop_exit
    /\ UNCHANGED <<config_timezone, timezone, warnings, cleanups>>

\* lines 314-316: one iteration: clock.display_time_enhanced(), time.sleep().
\* An exception of the render pass is not a KeyboardInterrupt: it passes the
\* except clause and leaves the loop for the finally clause.
MainTick ==
    /\ pc = "loop"
    /\ \E t \in SnapTimes, d \in Dates, ok \in BOOLEAN :
          display_time_enhanced(FALSE, t[1], t[2], d, ok)
    /\ IF ret'.outcome \in {"ValueError", "AttributeError"}
         THEN pc' = "finally" /\ loop_exit' = ret'.outcome
         ELSE pc' = "loop" /\ loop_exit' = loop_exit
    /\ UNCHANGED <<config_timezone, timezone, warnings, cleanups>>

\* lines 317-318: KeyboardInterrupt raised inside the try statement (taken at
\* the boundary between two iterations), handled by the except clause
MainInterrupt ==
    /\ pc = "loop"
    /\ pc' = "finally"
    /\ loop_exit' = "KeyboardInterrupt"
    /\ UNCHANGED <<last_time, last_date, digit_cache, call, ret, ops,
                   config_timezone, timezone, warnings, cleanups>>

\* lines 319-320: finally: clock.display_manager.cleanup()
MainFinally ==
    /\ pc = "finally"
    /\ cleanups' = cleanups + 1
    /\ pc' = "exit"
    /\ UNCHANGED <<last_time, last_date, digit_cache, call, ret, ops,
                   config_timezone, timezone, warnings, loop_exit>>

NextMain == MainConstruct \/ MainTick \/ MainInterrupt \/ MainFinally

\* the finally clause runs as soon as control leaves the try statement
SpecMain == InitMain /\ [][NextMain]_vars /\ WF_vars(MainFinally)

(***************************************************************************)
(* Vocabulary of the properties.                                           *)
(***************************************************************************)
Exceptions == {"ValueError", "AttributeError"}

IsRender(c) == c.kind = "render"

\* positions of the operations on the display manager
SinkOps(o) == {i \in 1..Len(o) : o[i].op \in {"write", "present"}}

\* a frame write immediately followed by a present
WritesThenPresents(o) ==
    \E i \in 1..(Len(o) - 1) : o[i].op = "write" /\ o[i + 1].op = "present"

CellPos ==
    <<  <<HOUR_TENS_X, HOUR_TENS_Y>>, <<HOUR_ONES_X, HOUR_ONES_Y>>,
        <<MINUTE_TENS_X, MINUTE_TENS_Y>>, <<MINUTE_ONES_X, MINUTE_ONES_Y>>  >>

IsBlank(name) == \E i \in 1..Len(BLANK_NUMS) : BLANK_NUMS[i] = name

\* digit cells (1 hour-tens .. 4 minute-ones) that received a blank paste
BlankedCells(o) ==
    {c \in 1..4 : \E i \in 1..Len(o) :
        o[i].op = "paste" /\ o[i].layer = "main" /\ o[i].pos = CellPos[c]
        /\ IsBlank(o[i].name)}

\* digit cells that received a digit glyph
DrawnCells(o) ==
    {c \in 1..4 : \E i \in 1..Len(o) :
        o[i].op = "paste" /\ o[i].layer = "main" /\ o[i].pos = CellPos[c]
        /\ ~IsBlank(o[i].name)}

\* the tens glyph was pasted into the hour-tens cell
TensGlyphPasted(o) ==
    \E i \in 1..Len(o) :
        o[i].op = "paste" /\ o[i].pos = CellPos[1] /\ o[i].name = "digit10s.png"

QuadOf(time_str) == time_str_to_decimal(time_str).quad

SameSnapshot(c1, c2) ==
    c1.snap.time_str = c2.snap.time_str /\ c1.snap.date_str = c2.snap.date_str

(***************************************************************************)
(* C1. Idempotence of display_time_enhanced: when render(false) is called  *)
(* twice in a row and the second call sees the same time string and date   *)
(* string as the first, the second call performs no frame write and no     *)
(* present on the display manager.                                         *)
(***************************************************************************)
C1_Idempotence ==
    [][ ( /\ IsRender(call) /\ ~call.force_clear
          /\ IsRender(call') /\ ~call'.force_clear
          /\ SameSnapshot(call, call') )
        => SinkOps(ops') = {} ]_vars

(***************************************************************************)
(* C2. Forced clear: in every reachable state a call render(true) performs *)
(* a frame write followed by a present, whatever the cache, last_time and  *)
(* last_date are.                                                          *)
(***************************************************************************)
C2_ForcedClear ==
    (IsRender(call) /\ call.force_clear) => WritesThenPresents(ops)

(***************************************************************************)
(* C3. First render: from the initial state (last_time = None, empty glyph *)
(* cache) the first render(false) marks all four digit cells changed,      *)
(* blanks and draws every cell, writes and presents the frame and ends     *)
(* with last_time equal to the snapshot's time string; a second call with  *)
(* the same snapshot then performs no write.  (Stated for glyph assets     *)
(* that decode.)                                                           *)
(***************************************************************************)
C3_FirstRender ==
    /\ [][ ( /\ last_time = None /\ last_date = None /\ digit_cache = <<>>
             /\ IsRender(call') /\ ~call'.force_clear /\ call'.ok )
           => ( /\ BlankedCells(ops') = 1..4
                /\ {2, 3, 4} \subseteq DrawnCells(ops')
                /\ WritesThenPresents(ops')
                /\ ops'[Len(ops')].op = "present"
                /\ last_time' = call'.snap.time_str ) ]_vars
    /\ [][ ( /\ IsRender(call) /\ ~call.force_clear /\ ret.outcome = "completed"
             /\ IsRender(call') /\ ~call'.force_clear
             /\ SameSnapshot(call, call') )
           => SinkOps(ops') = {} ]_vars

(***************************************************************************)
(* C4. Glyph cache get: for a glyph whose asset decodes, the first request *)
(* stores the bitmap and returns that bitmap (not an absent value); every  *)
(* later request returns the stored bitmap without performing a load.      *)
(***************************************************************************)
C4_CacheGet ==
    \A i \in 1..Len(ops) :
        ops[i].op = "load" =>
            /\ ops[i].name \in DOMAIN digit_cache
            /\ ops[i].img = digit_cache[ops[i].name]
            /\ IsImage(ops[i].img)

(***************************************************************************)
(* C5. A glyph load failure is contained: when decoding a glyph fails in a *)
(* render pass, no error propagates out of the render call.                *)
(***************************************************************************)
DecodeFailed(o) == \E i \in 1..Len(o) : o[i].op = "decode" /\ ~IsImage(o[i].img)

C5_LoadFailureContained ==
    (IsRender(call) /\ DecodeFailed(ops)) => ret.outcome \notin Exceptions

(***************************************************************************)
(* C6. Digit-cell isolation: a digit cell is blanked in a pass if and only *)
(* if its new digit differs from its old digit; in particular, when a      *)
(* completed render of T1 is followed by a render of T2 that differs from  *)
(* T1 only in the minute-ones digit, the minute-ones cell is blanked and   *)
(* no other digit cell is.  (Stated for glyph assets that decode.)         *)
(***************************************************************************)
ChangedCells(new_time, old_time) ==
    {c \in 1..4 : QuadOf(new_time)[c] # QuadOf(old_time)[c]}

C6_DigitCellIsolation ==
    /\ [][ (IsRender(call') /\ ret'.outcome # "skipped" /\ call'.ok)
           => BlankedCells(ops') = ChangedCells(call'.snap.time_str, last_time) ]_vars
    /\ [][ ( /\ IsRender(call) /\ ret.outcome = "completed"
             /\ IsRender(call') /\ call'.ok
             /\ ChangedCells(call'.snap.time_str, call.snap.time_str) = {4} )
           => BlankedCells(ops') = {4} ]_vars

(***************************************************************************)
(* C7. Leading-hour suppression: in every render pass the tens glyph is    *)
(* pasted into the hour-tens cell if and only if the new hour-tens value   *)
(* is greater than 0.  (Stated for glyph assets that decode.)              *)
(***************************************************************************)
C7_LeadingHourSuppression ==
    (IsRender(call) /\ ret.outcome # "skipped" /\ call.ok)
        => (TensGlyphPasted(ops) <=> QuadOf(call.snap.time_str)[1] > 0)

(***************************************************************************)
(* C8. time_str_to_decimal fails with a format error for every time string *)
(* that does not split into exactly two colon-delimited numeric fields; it *)
(* never returns a digit quad for such a string.                           *)
(***************************************************************************)
Colons(s) == {i \in 1..Len(s) : s[i] = ":"}

Numeric(f) == Len(f) > 0 /\ \A i \in 1..Len(f) : f[i] \in {DigitChars[d] : d \in 1..10}

\* the text before the first colon (the whole string when there is none)
Field1(s) ==
    IF Colons(s) = {} THEN s
    ELSE SubSeq(s, 1, (CHOOSE i \in Colons(s) : \A j \in Colons(s) : i <= j) - 1)

\* the text between the first colon and the second (or the end)
Field2(s) ==
    LET c1 == CHOOSE i \in Colons(s) : \A j \in Colons(s) : i <= j
        rest == {i \in Colons(s) : i > c1}
        c2 == IF rest = {} THEN Len(s) + 1
              ELSE CHOOSE i \in rest : \A j \in rest : i <= j
    IN SubSeq(s, c1 + 1, c2 - 1)

TwoNumericFields(s) ==
    /\ Cardinality(Colons(s)) = 1
    /\ Numeric(Field1(s))
    /\ Numeric(Field2(s))

C8_FormatErrorUnlessTwoFields ==
    (call.kind = "decompose" /\ call.arg # None /\ ~TwoNumericFields(call.arg))
        => ret.outcome = "ValueError"

\* C8 as amended: time_str_to_decimal fails with a format error exactly when
\* the first colon-delimited field, or the second one when there is one, is
\* not a number; a numeric string without a colon gives its digits with
\* minute 0, and fields after the second are ignored.
C8_FormatErrorAmended ==
    (call.kind = "decompose" /\ call.arg # None)
        => /\ ret.outcome = "ValueError"
                <=> \/ ~Numeric(Field1(call.arg))
                    \/ (Colons(call.arg) # {} /\ ~Numeric(Field2(call.arg)))
           /\ (ret.outcome = "returned" /\ Colons(call.arg) = {})
                => (ret.quad[3] = 0 /\ ret.quad[4] = 0)

C8_Witness ==
    /\ call.kind = "decompose"
    /\ call.arg = <<"1", "5">>
    /\ ret.outcome = "returned"
    /\ ret.quad = <<1, 5, 0, 0>>

(***************************************************************************)
(* C9. Round trip: for every valid 12-hour time string H:MM (hour 1..12    *)
(* without leading zero, minute 00..59 zero-padded), decomposing it and    *)
(* formatting hourTens*10+hourOnes, a colon, and minuteTens*10+minuteOnes  *)
(* padded to two digits gives back the string.                             *)
(***************************************************************************)
ValidTimeStrings == {IntToStr(H) \o <<":">> \o Pad2(M) : H \in 1..12, M \in 0..59}

Reconstruct(q) == IntToStr(q[1] * 10 + q[2]) \o <<":">> \o Pad2(q[3] * 10 + q[4])

C9_RoundTrip ==
    (call.kind = "decompose" /\ call.arg \in ValidTimeStrings)
        => (ret.outcome = "returned" /\ Reconstruct(ret.quad) = call.arg)

C9_Witness ==
    /\ call.kind = "decompose"
    /\ call.arg = <<"1", "2", ":", "0", "5">>
    /\ ret.outcome = "returned"
    /\ ret.quad = <<1, 2, 0, 5>>

(***************************************************************************)
(* C10. time_str_to_decimal(None) returns the sentinel quad (-1,-1,-1,-1)  *)
(* in every reachable state, whatever renders and decompositions came      *)
(* before it.                                                              *)
(***************************************************************************)
C10_NoneGivesSentinel ==
    (call.kind = "decompose" /\ call.arg = None)
        => (ret.outcome = "returned" /\ ret.quad = <<-1, -1, -1, -1>>)

C10_Witness ==
    /\ call.kind = "decompose"
    /\ call.arg = None
    /\ last_time # None
    /\ DOMAIN digit_cache # {}
    /\ ret.quad = <<-1, -1, -1, -1>>

(***************************************************************************)
(* C14. Renderer state is updated only on success: last_time and last_date *)
(* are left unchanged by a skipped render and by a pass that aborts with   *)
(* an error at any step; after a pass that completes they equal the        *)
(* snapshot's time string and date string.                                 *)
(***************************************************************************)
C14_StateUpdatedOnlyOnSuccess ==
    [][ IsRender(call')
        => IF ret'.outcome = "completed"
             THEN /\ last_time' = call'.snap.time_str
                  /\ last_date' = call'.snap.date_str
             ELSE /\ last_time' = last_time
                  /\ last_date' = last_date ]_vars

\* a pass that aborted after its first present, leaving the state untouched
C14_Witness ==
    /\ IsRender(call)
    /\ ret.outcome \in Exceptions
    /\ SinkOps(ops) # {}
    /\ last_time # call.snap.time_str

(***************************************************************************)
(* C15. Two-phase present ordering: every render pass that is not skipped  *)
(* and completes performs exactly two write-then-present operations, the   *)
(* first after the blank pastes and the overlay composite and before any   *)
(* digit glyph is pasted, the second after all digit glyphs; every present *)
(* is immediately preceded by a frame write, and the blanking of a cell    *)
(* precedes the drawing of its glyph.                                      *)
(***************************************************************************)
OpsAt(o, op) == {i \in 1..Len(o) : o[i].op = op}

BlankPastes(o) ==
    {i \in OpsAt(o, "paste") : o[i].layer = "main" /\ IsBlank(o[i].name)}

DigitPastes(o) ==
    {i \in OpsAt(o, "paste") : o[i].layer = "main" /\ ~IsBlank(o[i].name)}

OverlayPastes(o) == {i \in OpsAt(o, "paste") : o[i].layer = "overlay"}

C15_TwoPhasePresent ==
    /\ IsRender(call)
         => \A p \in OpsAt(ops, "present") : p > 1 /\ ops[p - 1].op = "write"
    /\ (IsRender(call) /\ ret.outcome = "completed")
         => /\ Cardinality(OpsAt(ops, "present")) = 2
            /\ Cardinality(OpsAt(ops, "write")) = 2
            /\ Cardinality(OpsAt(ops, "composite")) = 1
            /\ ops[Len(ops)].op = "present"
            /\ \E w1 \in OpsAt(ops, "write"), w2 \in OpsAt(ops, "write") :
                  /\ w1 < w2
                  /\ \A i \in BlankPastes(ops) \cup OverlayPastes(ops) :
                        \A c \in OpsAt(ops, "composite") : i < c /\ c < w1
                  /\ \A i \in DigitPastes(ops) : w1 + 1 < i /\ i < w2
            /\ \A b \in BlankPastes(ops), g \in DigitPastes(ops) :
                  ops[b].pos = ops[g].pos => b < g

\* a completed pass that blanked cells and drew the tens glyph
C15_Witness ==
    /\ IsRender(call)
    /\ ret.outcome = "completed"
    /\ BlankedCells(ops) # {}
    /\ TensGlyphPasted(ops)

(***************************************************************************)
(* C16. Blank glyph per cell: for each digit cell marked changed, the      *)
(* blanking glyph pasted matches the cell kind: both tens cells (hour-tens *)
(* and minute-tens) are blanked with blank10s and both ones cells          *)
(* (hour-ones and minute-ones) with blank1s, each at the cell's origin.    *)
(***************************************************************************)
\* the blank glyphs pasted at the origin of digit cell c
BlanksAt(o, c) == {o[i].name : i \in {j \in BlankPastes(o) : o[j].pos = CellPos[c]}}

BlanksOnlyAtCells(o) ==
    \A i \in BlankPastes(o) : \E c \in 1..4 : o[i].pos = CellPos[c]

C16_BlankWidthPerCell ==
    IsRender(call)
        => /\ BlanksOnlyAtCells(ops)
           /\ BlanksAt(ops, 1) \subseteq {"blank10s.png"}
           /\ BlanksAt(ops, 3) \subseteq {"blank10s.png"}
           /\ BlanksAt(ops, 2) \subseteq {"blank1s.png"}
           /\ BlanksAt(ops, 4) \subseteq {"blank1s.png"}

\* C16 as amended: only the hour-tens cell is blanked with blank10s; the
\* hour-ones, minute-tens and minute-ones cells are blanked with blank1s;
\* each blank is pasted at the origin of a digit cell marked changed.
C16_BlankPerCellAmended ==
    [][ IsRender(call')
        => /\ BlanksOnlyAtCells(ops')
           /\ BlanksAt(ops', 1) \subseteq {"blank10s.png"}
           /\ \A c \in 2..4 : BlanksAt(ops', c) \subseteq {"blank1s.png"}
           /\ BlankedCells(ops') \subseteq ChangedCells(call'.snap.time_str, last_time)
      ]_vars

\* a pass that blanked all four cells
C16_Witness ==
    /\ IsRender(call)
    /\ BlanksAt(ops, 1) = {"blank10s.png"}
    /\ BlanksAt(ops, 3) = {"blank1s.png"}
    /\ BlankedCells(ops) = 1..4

(***************************************************************************)
(* C17. Changed and unchanged branches are equivalent: in every render     *)
(* pass that is not skipped, the glyph pasted in the draw phase for each   *)
(* of hour-ones, minute-tens and minute-ones is the digit glyph of the new *)
(* quad's value for that cell, whether the cell is marked changed or not;  *)
(* the pass draws what a pass that always draws from the new quad draws.   *)
(***************************************************************************)
\* the glyph names a pass draws from the new quad q at cells 2..4
GlyphOfNew(q, c) == NUMBER_IMAGES[q[c] + 1]

C17_BranchesEquivalent ==
    IsRender(call)
        => /\ \A i \in DigitPastes(ops) : \A c \in 2..4 :
                 ops[i].pos = CellPos[c]
                    => /\ ops[i].name = GlyphOfNew(QuadOf(call.snap.time_str), c)
                       /\ ops[i].idx = QuadOf(call.snap.time_str)[c]
           /\ ret.outcome = "completed"
                 => \A c \in 2..4 :
                       Cardinality({i \in DigitPastes(ops) : ops[i].pos = CellPos[c]}) = 1

\* a completed pass with one changed cell and unchanged hour-ones, minute-tens
C17_Witness ==
    /\ IsRender(call)
    /\ ret.outcome = "completed"
    /\ BlankedCells(ops) = {4}
    /\ {2, 3, 4} \subseteq DrawnCells(ops)

(***************************************************************************)
(* C18. The glyph cache is grow-only and bounded: an entry once stored is  *)
(* never removed or replaced, a failed load stores nothing, and the cache  *)
(* holds at most one entry per name of the fixed glyph set (digit0..9,     *)
(* digit10s, blank1s, blank10s, am, pm, timeseparator), so its size never  *)
(* exceeds that constant.                                                  *)
(***************************************************************************)
GlyphSet ==
    {NUMBER_IMAGES[i] : i \in 1..Len(NUMBER_IMAGES)}
        \cup {BLANK_NUMS[i] : i \in 1..Len(BLANK_NUMS)}
        \cup {"am.png", "pm.png", "timeseparator.png"}

C18_CacheGrowOnlyBounded ==
    /\ [](/\ DOMAIN digit_cache \subseteq GlyphSet
          /\ Cardinality(DOMAIN digit_cache) <= Cardinality(GlyphSet)
          /\ \A n \in DOMAIN digit_cache : digit_cache[n] = Decode(n))
    /\ [][ \A n \in DOMAIN digit_cache :
              n \in DOMAIN digit_cache' /\ digit_cache'[n] = digit_cache[n] ]_vars
    /\ [][ (IsRender(call') /\ DecodeFailed(ops')) => digit_cache' = digit_cache ]_vars

\* a cache of several glyphs that a failed load has just left as it was
C18_Witness ==
    /\ IsRender(call)
    /\ DecodeFailed(ops)
    /\ Cardinality(DOMAIN digit_cache) >= 6

(***************************************************************************)
(* C19. The sentinel never selects a glyph: in every render pass over      *)
(* well-formed 12-hour time strings, the first pass (old quad -1,-1,-1,-1) *)
(* included, every index used to pick a digit glyph from NUMBER_IMAGES for *)
(* hour-ones, minute-tens and minute-ones is in 0..9; -1 (which would pick *)
(* the last entry, digit10s) is never used, and index 10 is used only for  *)
(* the hour-tens cell.                                                     *)
(***************************************************************************)
\* positions in the log where a glyph was selected from NUMBER_IMAGES
NumberSelections(o) ==
    {i \in 1..Len(o) :
        /\ o[i].op \in {"decode", "load", "paste"}
        /\ o[i].idx # NoIdx
        /\ ~IsBlank(o[i].name)}

C19_SentinelNeverSelects ==
    IsRender(call)
        => \A i \in NumberSelections(ops) :
              /\ ops[i].idx # -1
              /\ ops[i].idx \in 0..10
              /\ (\E c \in 2..4 : ops[i].pos = CellPos[c]) => ops[i].idx \in 0..9
              /\ ops[i].idx = 10 <=> ops[i].pos = CellPos[1]
              /\ ops[i].name = NUMBER_IMAGES[ops[i].idx + 1]

\* a completed first pass: every cell compared against the sentinel
C19_Witness ==
    /\ IsRender(call)
    /\ ret.outcome = "completed"
    /\ BlankedCells(ops) = 1..4
    /\ Cardinality(NumberSelections(ops)) >= 3

(***************************************************************************)
(* C20. A forced clear does not reset the previous-time state: when        *)
(* render(true), or a render triggered only by a date change, runs with a  *)
(* time string equal to last_time, the old quad equals the new quad, so no *)
(* digit cell is marked changed and no blank glyph is pasted, while the    *)
(* separator, the AM/PM glyph and all digit glyphs are still drawn and the *)
(* frame is still written and presented.  (Stated for glyph assets that    *)
(* decode.)                                                                *)
(***************************************************************************)
OverlayDrawn(o) ==
    /\ \E i \in OverlayPastes(o) :
          o[i].pos = <<TIME_SEPARATOR_X, TIME_SEPARATOR_Y>>
          /\ o[i].name = "timeseparator.png"
    /\ \E i \in OverlayPastes(o) :
          o[i].pos = <<AM_PM_X, AM_PM_Y>> /\ o[i].name \in {"am.png", "pm.png"}

C20_ForcedClearKeepsPrevious ==
    [][ ( /\ IsRender(call') /\ ret'.outcome # "skipped" /\ call'.ok
          /\ call'.snap.time_str = last_time )
        => ( /\ ChangedCells(call'.snap.time_str, last_time) = {}
             /\ BlankPastes(ops') = {}
             /\ OverlayDrawn(ops')
             /\ {2, 3, 4} \subseteq DrawnCells(ops')
             /\ TensGlyphPasted(ops') <=> QuadOf(call'.snap.time_str)[1] > 0
             /\ WritesThenPresents(ops')
             /\ ops'[Len(ops')].op = "present" ) ]_vars

(***************************************************************************)
(* C11. The driving loop survives render errors: if a render pass raises   *)
(* an error the loop is not terminated and a later tick still invokes      *)
(* render; only an interrupt ends the loop.                                *)
(***************************************************************************)
LoopEnded == pc \in {"finally", "exit"}

C11_LoopSurvivesRenderErrors ==
    /\ (IsRender(call) /\ ret.outcome \in Exceptions) => pc = "loop"
    /\ LoopEnded => loop_exit = "KeyboardInterrupt"

(***************************************************************************)
(* C12. Release on termination: whenever the driving loop ends, by         *)
(* interrupt or by any other exit, display_manager.cleanup() is called     *)
(* exactly once afterwards, and no render happens after the release.       *)
(***************************************************************************)
C12_ReleaseOnTermination ==
    /\ [](cleanups <= 1)
    /\ [](~LoopEnded => cleanups = 0)
    /\ [](pc = "exit" => cleanups = 1)
    /\ LoopEnded ~> (cleanups = 1)
    /\ [][ LoopEnded => UNCHANGED <<call, ret, ops, last_time, last_date,
                                    digit_cache>> ]_vars

\* the loop left by an exception of the render pass, display released once
C12_Witness ==
    /\ pc = "exit"
    /\ loop_exit \in Exceptions
    /\ cleanups = 1

(***************************************************************************)
(* C13. Timezone fallback: constructing the clock with an unrecognized     *)
(* timezone identifier yields the universal-time zone and exactly one      *)
(* logged warning, and no error of the timezone resolution reaches the     *)
(* render loop; with a recognized identifier the configured zone is used   *)
(* and no warning is logged.                                               *)
(***************************************************************************)
C13_TimezoneFallback ==
    /\ pc = "construct" => warnings = 0
    /\ pc # "crashed"
    /\ loop_exit # "UnknownTimeZoneError"
    /\ pc # "construct"
         => IF config_timezone \in PytzZones
              THEN timezone = config_timezone /\ warnings = 0
              ELSE timezone = "UTC" /\ warnings = 1

\* the loop running in UTC after an unknown identifier, one warning logged
C13_Witness ==
    /\ pc = "finally"
    /\ IsRender(call)
    /\ config_timezone = "Mars/Olympus"
    /\ timezone = "UTC"
    /\ warnings = 1

====
